---- MODULE Spec2Model ----
(***************************************************************************)
(* Routes for companies (src/routes/companies.js): the five request        *)
(* handlers of the /companies router, the middleware chain of each route,  *)
(* and the collaborators they call.  A request occupies a slot; a handler   *)
(* runs synchronously up to its `await`, the persistence call resolves in  *)
(* a later step, and the response is sent in a third.                      *)
(***************************************************************************)
EXTENDS Integers, Sequences, FiniteSets, TLC

VARIABLES store, jobs, reqs, created, gone

vars == <<store, jobs, reqs, created, gone>>

(* ------------------------------ bounds -------------------------------- *)

\* Longest raw text of a minEmployees / maxEmployees query value.
MaxQueryLen == 2

\* Requests in flight at once.
NSlots == 2

(* --------------------------- JSON values ------------------------------ *)

\* A value of a request body or of a stored row: a key that is not there,
\* a string, or a number.
Absent == [t |-> "absent", i |-> 0, s |-> ""]

Str(x) == [t |-> "str", i |-> 0, s |-> x]

Num(n) == [t |-> "int", i |-> n, s |-> ""]

\* A value of req.query: a key that is not there, the raw text (a sequence
\* of characters), or, once coerced, a number or NaN.
QAbsent == [t |-> "absent", i |-> 0, s |-> <<>>]

QStr(cs) == [t |-> "str", i |-> 0, s |-> cs]

QNum(n) == [t |-> "int", i |-> n, s |-> <<>>]

QNaN == [t |-> "nan", i |-> 0, s |-> <<>>]

BodyKeys == <<"handle", "name", "description", "numEmployees", "logoUrl">>

QueryKeys == <<"minEmployees", "maxEmployees", "nameLike", "location">>

EmptyBody ==
  [handle |-> Absent, name |-> Absent, description |-> Absent,
   numEmployees |-> Absent, logoUrl |-> Absent]

EmptyQuery ==
  [minEmployees |-> QAbsent, maxEmployees |-> QAbsent, nameLike |-> QAbsent,
   location |-> QAbsent]

(* ------------------------- parseInt, isNaN ---------------------------- *)

IsDigit(c) == c \in {"0", "1", "2", "3", "4", "5", "6", "7", "8", "9"}

DigitVal(c) ==
  CASE c = "0" -> 0 [] c = "1" -> 1 [] c = "2" -> 2 [] c = "3" -> 3
    [] c = "4" -> 4 [] c = "5" -> 5 [] c = "6" -> 6 [] c = "7" -> 7
    [] c = "8" -> 8 [] c = "9" -> 9

IsSpace(c) == c \in {" ", "\t", "\n"}

RECURSIVE SkipSpace(_)
SkipSpace(cs) ==
  IF cs # <<>> /\ IsSpace(Head(cs)) THEN SkipSpace(Tail(cs)) ELSE cs

\* The longest prefix of cs made of digits.
RECURSIVE DigitPrefix(_)
DigitPrefix(cs) ==
  IF cs # <<>> /\ IsDigit(Head(cs))
  THEN <<Head(cs)>> \o DigitPrefix(Tail(cs))
  ELSE <<>>

RECURSIVE DecimalValue(_, _)
DecimalValue(ds, acc) ==
  IF ds = <<>> THEN acc
  ELSE DecimalValue(Tail(ds), 10 * acc + DigitVal(Head(ds)))

\* parseInt(text) with no radix: leading white space is skipped, one sign is
\* read, then the longest run of decimal digits; what follows the digits is
\* ignored, and NaN is the result when there is no digit.  (The characters
\* drawn here never spell the 0x prefix of a hexadecimal literal.)
ParseInt(cs) ==
  LET t == SkipSpace(cs)
      neg == t # <<>> /\ Head(t) = "-"
      u == IF t # <<>> /\ Head(t) \in {"-", "+"} THEN Tail(t) ELSE t
      ds == DigitPrefix(u)
  IN  IF ds = <<>> THEN QNaN
      ELSE QNum(IF neg THEN 0 - DecimalValue(ds, 0) ELSE DecimalValue(ds, 0))

IsNaN(v) == v.t = "nan"

\* JavaScript truthiness of a query value: undefined and "" are falsy.
Truthy(v) == v.t = "str" /\ v.s # <<>>

(* ------------------------ jsonschema.validate ------------------------- *)

Prop(k, ty, hasMin, min) ==
  [key |-> k, type |-> ty, hasMin |-> hasMin, minimum |-> min]

companyNewSchema ==
  [properties |->
     <<Prop("handle", "string", FALSE, 0), Prop("name", "string", FALSE, 0),
       Prop("description", "string", FALSE, 0),
       Prop("numEmployees", "integer", TRUE, 0),
       Prop("logoUrl", "string", FALSE, 0)>>,
   required |-> <<"handle", "name">>]

companyUpdateSchema ==
  [properties |->
     <<Prop("name", "string", FALSE, 0),
       Prop("description", "string", FALSE, 0),
       Prop("numEmployees", "integer", TRUE, 0),
       Prop("logoUrl", "string", FALSE, 0)>>,
   required |-> <<>>]

companySearchFiltersSchema ==
  [properties |->
     <<Prop("minEmployees", "integer", TRUE, 0),
       Prop("maxEmployees", "integer", TRUE, 0),
       Prop("nameLike", "string", FALSE, 0)>>,
   required |-> <<>>]

\* One entry of validator.errors; `stack` is the message the routes send, kept
\* as its parts: the path of the value and the keyword it fails.
ValidationError(k, keyword) ==
  [property |-> k, name |-> keyword, stack |-> <<"instance", k, keyword>>]

HasType(v, ty) ==
  \/ ty = "string" /\ v.t = "str"
  \/ ty = "integer" /\ v.t = "int"

\* The errors of one declared property, its keywords in order: type, minimum.
PropertyErrors(inst, p) ==
  LET v == inst[p.key]
  IN  IF v.t = "absent" THEN <<>>
      ELSE (IF HasType(v, p.type) THEN <<>>
            ELSE <<ValidationError(p.key, "type")>>)
           \o (IF p.hasMin /\ v.t = "int" /\ v.i < p.minimum
               THEN <<ValidationError(p.key, "minimum")>>
               ELSE <<>>)

RECURSIVE AllPropertyErrors(_, _)
AllPropertyErrors(inst, ps) ==
  IF ps = <<>> THEN <<>>
  ELSE PropertyErrors(inst, Head(ps)) \o AllPropertyErrors(inst, Tail(ps))

Declared(schema) == {schema.properties[n].key : n \in DOMAIN schema.properties}

RECURSIVE AdditionalErrors(_, _, _)
AdditionalErrors(inst, keys, schema) ==
  IF keys = <<>> THEN <<>>
  ELSE (IF inst[Head(keys)].t # "absent" /\ Head(keys) \notin Declared(schema)
        THEN <<ValidationError(Head(keys), "additionalProperties")>>
        ELSE <<>>)
       \o AdditionalErrors(inst, Tail(keys), schema)

RECURSIVE RequiredErrors(_, _)
RequiredErrors(inst, req) ==
  IF req = <<>> THEN <<>>
  ELSE (IF inst[Head(req)].t = "absent"
        THEN <<ValidationError(Head(req), "required")>>
        ELSE <<>>)
       \o RequiredErrors(inst, Tail(req))

\* validator.errors of jsonschema.validate(inst, schema), where `keys` are the
\* instance's possible keys in their order: the schema's keywords are applied in
\* the order properties, additionalProperties (false), required.
Validate(inst, keys, schema) ==
  AllPropertyErrors(inst, schema.properties)
    \o AdditionalErrors(inst, keys, schema)
    \o RequiredErrors(inst, schema.required)

(* ------------------------------ values -------------------------------- *)

Handles == {"acme", "globex"}

\* The order Company.findAll returns rows in.
HandleOrder == <<"acme", "globex">>

\* Handles a path may name; "ghost" is never created.
PathHandles == Handles \cup {"ghost"}

NoCompany == EmptyBody

Present(c) == c.handle.t = "str"

Has(st, h) == h \in Handles /\ Present(st[h])

SeedCompany ==
  [handle |-> Str("globex"), name |-> Str("B"), description |-> Str("d"),
   numEmployees |-> Num(2), logoUrl |-> Absent]

SeedJobs == <<101>>

(* ----------------------- Company (persistence) ------------------------ *)

\* What a call of the persistence layer gives back: a value or a thrown error,
\* and the store and the jobs table after it.
Result(ok, err, company, hasJobs, js, companies, st, jb) ==
  [ok |-> ok, error |-> err, company |-> company, hasJobs |-> hasJobs,
   jobs |-> js, companies |-> companies, store |-> st, jobsTable |-> jb]

NoResult(st, jb) == Result(FALSE, "", NoCompany, FALSE, <<>>, <<>>, st, jb)

Thrown(err, st, jb) == Result(FALSE, err, NoCompany, FALSE, <<>>, <<>>, st, jb)

CompanyCreate(data, st, jb) ==
  LET h == data.handle.s
  IN  IF Has(st, h) THEN Thrown("Conflict", st, jb)
      ELSE Result(TRUE, "", data, FALSE, <<>>, <<>>,
                  [st EXCEPT ![h] = data], jb)

Lower(c) == CASE c = "A" -> "a" [] c = "B" -> "b" [] OTHER -> c

\* Case-insensitive partial match of a one-letter name.
NameLike(name, like) ==
  \/ like = <<>>
  \/ Len(like) = 1 /\ Lower(like[1]) = Lower(name)

Matches(c, f) ==
  /\ f.minEmployees.t = "absent"
       \/ (c.numEmployees.t = "int" /\ c.numEmployees.i >= f.minEmployees.i)
  /\ f.maxEmployees.t = "absent"
       \/ (c.numEmployees.t = "int" /\ c.numEmployees.i <= f.maxEmployees.i)
  /\ f.nameLike.t = "absent" \/ NameLike(c.name.s, f.nameLike.s)

RECURSIVE Rows(_, _, _)
Rows(hs, f, st) ==
  IF hs = <<>> THEN <<>>
  ELSE (IF Present(st[Head(hs)]) /\ Matches(st[Head(hs)], f)
        THEN <<st[Head(hs)]>> ELSE <<>>)
       \o Rows(Tail(hs), f, st)

CompanyFindAll(filters, st, jb) ==
  Result(TRUE, "", NoCompany, FALSE, <<>>, Rows(HandleOrder, filters, st), st, jb)

CompanyGet(h, st, jb) ==
  IF ~Has(st, h) THEN Thrown("NotFound", st, jb)
  ELSE Result(TRUE, "", st[h], TRUE, jb[h], <<>>, st, jb)

\* The row with the fields the patch carries set, the others kept.
Patched(c, data) ==
  [k \in DOMAIN c |->
     IF k # "handle" /\ data[k].t # "absent" THEN data[k] ELSE c[k]]

CompanyUpdate(h, data, st, jb) ==
  IF ~Has(st, h) THEN Thrown("NotFound", st, jb)
  ELSE Result(TRUE, "", Patched(st[h], data), FALSE, <<>>, <<>>,
              [st EXCEPT ![h] = Patched(st[h], data)], jb)

CompanyRemove(h, st, jb) ==
  IF ~Has(st, h) THEN Thrown("NotFound", st, jb)
  ELSE Result(TRUE, "", NoCompany, FALSE, <<>>, <<>>,
              [st EXCEPT ![h] = NoCompany], [jb EXCEPT ![h] = <<>>])

\* A call of the persistence layer, as a handler starts it.
Call(op, h, data, filters) ==
  [op |-> op, handle |-> h, data |-> data, filters |-> filters]

NoCall == Call("none", "", EmptyBody, EmptyQuery)

Execute(call, st, jb) ==
  CASE call.op = "create" -> CompanyCreate(call.data, st, jb)
    [] call.op = "findAll" -> CompanyFindAll(call.filters, st, jb)
    [] call.op = "get" -> CompanyGet(call.handle, st, jb)
    [] call.op = "update" -> CompanyUpdate(call.handle, call.data, st, jb)
    [] call.op = "remove" -> CompanyRemove(call.handle, st, jb)
    [] OTHER -> NoResult(st, jb)

(* ------------------------ requests and responses ---------------------- *)

Slots == 1..NSlots

\* The slot the sequential specifications serve their requests in.
SeqSlots == {1}

EmptyStore == [h \in Handles |-> NoCompany]

EmptyJobs == [h \in Handles |-> <<>>]

NoSnap == [had |-> FALSE, gone |-> FALSE, created |-> NoCompany, before |-> EmptyStore]

Request(route, auth, h, body, query) ==
  [pc |-> "received", route |-> route, auth |-> auth, handle |-> h,
   body |-> body, rawQuery |-> query, query |-> query, call |-> NoCall,
   calls |-> <<>>, result |-> NoResult(EmptyStore, EmptyJobs), snap |-> NoSnap,
   resp |-> <<>>]

IdleSlot == [Request("none", FALSE, "", EmptyBody, EmptyQuery) EXCEPT !.pc = "idle"]

Json(status, kind, company, hasJobs, js, companies, deleted) ==
  [status |-> status, kind |-> kind, error |-> "", messages |-> <<>>,
   company |-> company, hasJobs |-> hasJobs, jobs |-> js,
   companies |-> companies, deleted |-> deleted]

ErrorStatus(kind) ==
  CASE kind = "BadRequest" -> 400
    [] kind = "Unauthorized" -> 401
    [] kind = "NotFound" -> 404
    [] kind = "Conflict" -> 409
    [] OTHER -> 500

ErrorResponse(kind, messages) ==
  [status |-> ErrorStatus(kind), kind |-> "error", error |-> kind,
   messages |-> messages, company |-> NoCompany, hasJobs |-> FALSE,
   jobs |-> <<>>, companies |-> <<>>, deleted |-> ""]

\* throw: the request ends with the error, handed to the error handler.
Throw(req, kind, messages) ==
  [req EXCEPT !.pc = "done", !.resp = Append(@, ErrorResponse(kind, messages))]

\* await Company.op(...): the call is started and the handler suspends.
Await(req, call) ==
  [req EXCEPT !.pc = "awaiting", !.call = call, !.calls = Append(@, call.op)]

\* return res.status(..).json(..)
Send(req, response) ==
  [req EXCEPT !.pc = "done", !.resp = Append(@, response)]

\* A rejected await rethrows the error of the persistence layer as it is.
Rethrow(req) == Throw(req, req.result.error, <<>>)

\* ensureLoggedIn: passes a request that carries valid credentials.
EnsureLoggedIn(req) == req.auth

\* validator.errors.map(e => e.stack)
Stacks(errors) == [n \in DOMAIN errors |-> errors[n].stack]

(* ------------------------------ routes -------------------------------- *)

\* POST /, the handler up to its await.
PostHandler(req) ==
  LET errors == Validate(req.body, BodyKeys, companyNewSchema)
  IN  IF errors # <<>> THEN Throw(req, "BadRequest", Stacks(errors))
      ELSE Await(req, Call("create", "", req.body, EmptyQuery))

PostRoute(req) ==
  IF ~EnsureLoggedIn(req) THEN Throw(req, "Unauthorized", <<>>)
  ELSE PostHandler(req)

\* Mutant of PostContinue: the status is left at its default, 200.
PostContinueDefaultStatus(req) ==
  IF ~req.result.ok THEN Rethrow(req)
  ELSE Send(req, Json(200, "company", req.result.company, req.result.hasJobs,
                      req.result.jobs, <<>>, ""))

PostContinue(req) ==
  IF ~req.result.ok THEN Rethrow(req)
  ELSE Send(req, Json(201, "company", req.result.company, req.result.hasJobs,
                      req.result.jobs, <<>>, ""))

\* Mutant of Coerce: only minEmployees is coerced.
CoerceMinOnly(q, k) ==
  IF k = "minEmployees" /\ Truthy(q[k]) THEN [q EXCEPT ![k] = ParseInt(q[k].s)]
  ELSE q

\* if (req.query[k]) req.query[k] = parseInt(req.query[k])
Coerce(q, k) ==
  IF Truthy(q[k]) THEN [q EXCEPT ![k] = ParseInt(q[k].s)] ELSE q

\* Mutant of ListHandler: req.query is not validated against the schema.
ListHandlerNoValidation(req) ==
  LET q1 == Coerce(req.query, "minEmployees")
      q2 == Coerce(q1, "maxEmployees")
  IN  IF Truthy(req.query.minEmployees) /\ IsNaN(q1.minEmployees)
      THEN Throw([req EXCEPT !.query = q1], "BadRequest",
                 <<<<"minEmployees must be a number.">>>>)
      ELSE IF Truthy(q1.maxEmployees) /\ IsNaN(q2.maxEmployees)
      THEN Throw([req EXCEPT !.query = q2], "BadRequest",
                 <<<<"maxEmployees must be a number.">>>>)
      ELSE Await([req EXCEPT !.query = q2], Call("findAll", "", EmptyBody, q2))

\* GET /, the handler up to its await; req.query is coerced in place.
ListHandler(req) ==
  LET q1 == Coerce(req.query, "minEmployees")
      q2 == Coerce(q1, "maxEmployees")
  IN  IF Truthy(req.query.minEmployees) /\ IsNaN(q1.minEmployees)
      THEN Throw([req EXCEPT !.query = q1], "BadRequest",
                 <<<<"minEmployees must be a number.">>>>)
      ELSE IF Truthy(q1.maxEmployees) /\ IsNaN(q2.maxEmployees)
      THEN Throw([req EXCEPT !.query = q2], "BadRequest",
                 <<<<"maxEmployees must be a number.">>>>)
      ELSE LET errors == Validate(q2, QueryKeys, companySearchFiltersSchema)
           IN  IF errors # <<>>
               THEN Throw([req EXCEPT !.query = q2], "BadRequest", Stacks(errors))
               ELSE Await([req EXCEPT !.query = q2],
                          Call("findAll", "", EmptyBody, q2))

ListRoute(req) == ListHandler(req)

ListContinue(req) ==
  IF ~req.result.ok THEN Rethrow(req)
  ELSE Send(req, Json(200, "companies", NoCompany, FALSE, <<>>,
                      req.result.companies, ""))

\* Mutant of GetHandler: the call is Company.remove.
GetHandlerRemoves(req) ==
  Await(req, Call("remove", req.handle, EmptyBody, EmptyQuery))

\* GET /:handle
GetHandler(req) == Await(req, Call("get", req.handle, EmptyBody, EmptyQuery))

GetRoute(req) == GetHandler(req)

\* Mutant of GetContinue: the response is sent whether or not the call threw.
GetContinueSwallowsError(req) ==
  Send(req, Json(200, "company", req.result.company, req.result.hasJobs,
                 req.result.jobs, <<>>, ""))

GetContinue(req) ==
  IF ~req.result.ok THEN Rethrow(req)
  ELSE Send(req, Json(200, "company", req.result.company, req.result.hasJobs,
                      req.result.jobs, <<>>, ""))

\* Mutant of PatchHandler: only the first validator message is sent.
PatchHandlerFirstMessage(req) ==
  LET errors == Validate(req.body, BodyKeys, companyUpdateSchema)
  IN  IF errors # <<>> THEN Throw(req, "BadRequest", <<errors[1].stack>>)
      ELSE Await(req, Call("update", req.handle, req.body, EmptyQuery))

\* PATCH /:handle
PatchHandler(req) ==
  LET errors == Validate(req.body, BodyKeys, companyUpdateSchema)
  IN  IF errors # <<>> THEN Throw(req, "BadRequest", Stacks(errors))
      ELSE Await(req, Call("update", req.handle, req.body, EmptyQuery))

\* Mutant of PatchRoute: the body is validated before the credentials are checked.
PatchRouteValidatesFirst(req) ==
  LET errors == Validate(req.body, BodyKeys, companyUpdateSchema)
  IN  IF errors # <<>> THEN Throw(req, "BadRequest", Stacks(errors))
      ELSE IF ~EnsureLoggedIn(req) THEN Throw(req, "Unauthorized", <<>>)
      ELSE Await(req, Call("update", req.handle, req.body, EmptyQuery))

PatchRoute(req) ==
  IF ~EnsureLoggedIn(req) THEN Throw(req, "Unauthorized", <<>>)
  ELSE PatchHandler(req)

PatchContinue(req) ==
  IF ~req.result.ok THEN Rethrow(req)
  ELSE Send(req, Json(200, "company", req.result.company, req.result.hasJobs,
                      req.result.jobs, <<>>, ""))

\* DELETE /:handle
DeleteHandler(req) == Await(req, Call("remove", req.handle, EmptyBody, EmptyQuery))

\* Mutant of DeleteRoute: ensureLoggedIn is not in the route's chain.
DeleteRouteNoGate(req) ==
  Await(req, Call("remove", req.handle, EmptyBody, EmptyQuery))

DeleteRoute(req) ==
  IF ~EnsureLoggedIn(req) THEN Throw(req, "Unauthorized", <<>>)
  ELSE DeleteHandler(req)

\* Mutant of DeleteContinue: {deleted} is sent whether or not the call threw.
DeleteContinueSwallowsError(req) ==
  Send(req, Json(200, "deleted", NoCompany, FALSE, <<>>, <<>>, req.handle))

DeleteContinue(req) ==
  IF ~req.result.ok THEN Rethrow(req)
  ELSE Send(req, Json(200, "deleted", NoCompany, FALSE, <<>>, <<>>, req.handle))

(* ------------------------------ inputs -------------------------------- *)

PostBodies ==
  [handle : {Absent, Str("acme"), Str("globex"), Num(5)},
   name : {Absent, Str("A"), Num(7)},
   description : {Absent, Str("d")},
   numEmployees : {Absent, Num(1), Num(0 - 1), Str("x")},
   logoUrl : {Absent, Str("u")}]

PatchBodies ==
  [handle : {Absent, Str("other")},
   name : {Absent, Str("B"), Num(7)},
   description : {Absent, Str("d")},
   numEmployees : {Absent, Num(1), Num(0 - 1), Str("x")},
   logoUrl : {Absent, Str("u")}]

QueryChars == {"0", "1", "a", "-", " "}

QueryTexts == UNION {[1..n -> QueryChars] : n \in 0..MaxQueryLen}

Queries ==
  [minEmployees : {QAbsent} \cup {QStr(cs) : cs \in QueryTexts},
   maxEmployees : {QAbsent} \cup {QStr(cs) : cs \in QueryTexts},
   nameLike : {QAbsent, QStr(<<"a">>)},
   location : {QAbsent, QStr(<<"x">>)}]

SmallQueries ==
  [minEmployees : {QAbsent, QStr(<<"1">>), QStr(<<"a">>)},
   maxEmployees : {QAbsent, QStr(<<"0">>)},
   nameLike : {QAbsent, QStr(<<"b">>)},
   location : {QAbsent}]

\* The inputs of the specification with requests in flight together.
ConcPostBodies ==
  [handle : {Str("acme")}, name : {Str("A")}, description : {Absent},
   numEmployees : {Absent}, logoUrl : {Absent}]

ConcPatchBodies ==
  [handle : {Absent, Str("other")}, name : {Str("B")}, description : {Absent},
   numEmployees : {Absent}, logoUrl : {Absent}]

ConcQueries ==
  [minEmployees : {QAbsent, QStr(<<"a">>)}, maxEmployees : {QAbsent},
   nameLike : {QAbsent}, location : {QAbsent}]

ConcHandles == {"acme"}

(* ------------------------------ actions ------------------------------- *)

Post(r, bodies) ==
  /\ reqs[r].pc = "idle"
  /\ \E auth \in BOOLEAN, body \in bodies :
       reqs' = [reqs EXCEPT ![r] =
                  PostRoute(Request("post", auth, "", body, EmptyQuery))]
  /\ UNCHANGED <<store, jobs, created, gone>>

List(r, queries) ==
  /\ reqs[r].pc = "idle"
  /\ \E auth \in BOOLEAN, query \in queries :
       reqs' = [reqs EXCEPT ![r] =
                  ListRoute(Request("list", auth, "", EmptyBody, query))]
  /\ UNCHANGED <<store, jobs, created, gone>>

GetOne(r, handles) ==
  /\ reqs[r].pc = "idle"
  /\ \E auth \in BOOLEAN, h \in handles :
       reqs' = [reqs EXCEPT ![r] =
                  GetRoute(Request("get", auth, h, EmptyBody, EmptyQuery))]
  /\ UNCHANGED <<store, jobs, created, gone>>

Patch(r, handles, bodies) ==
  /\ reqs[r].pc = "idle"
  /\ \E auth \in BOOLEAN, h \in handles, body \in bodies :
       reqs' = [reqs EXCEPT ![r] =
                  PatchRoute(Request("patch", auth, h, body, EmptyQuery))]
  /\ UNCHANGED <<store, jobs, created, gone>>

Delete(r, handles) ==
  /\ reqs[r].pc = "idle"
  /\ \E auth \in BOOLEAN, h \in handles :
       reqs' = [reqs EXCEPT ![r] =
                  DeleteRoute(Request("delete", auth, h, EmptyBody, EmptyQuery))]
  /\ UNCHANGED <<store, jobs, created, gone>>

CallHandle(call) == IF call.op = "create" THEN call.data.handle.s ELSE call.handle

\* The pending call of slot r runs against the store and settles.
Persist(r) ==
  /\ reqs[r].pc = "awaiting"
  /\ LET call == reqs[r].call
         h == CallHandle(call)
         res == Execute(call, store, jobs)
     IN  /\ store' = res.store
         /\ jobs' = res.jobsTable
         /\ reqs' = [reqs EXCEPT ![r] =
                       [@ EXCEPT !.pc = "resolved", !.result = res,
                                 !.snap = [had |-> Has(store, h),
                                           gone |-> h \in Handles /\ gone[h],
                                           created |-> IF h \in Handles
                                                       THEN created[h]
                                                       ELSE NoCompany,
                                           before |-> store]]]
         /\ created' =
              [k \in Handles |->
                 IF k = h /\ call.op = "create" /\ res.ok THEN call.data
                 ELSE IF k = h /\ call.op \in {"update", "remove"} THEN NoCompany
                 ELSE created[k]]
         /\ gone' =
              [k \in Handles |->
                 IF k = h /\ call.op = "remove" /\ res.ok THEN TRUE
                 ELSE IF k = h /\ call.op = "create" /\ res.ok THEN FALSE
                 ELSE gone[k]]

Continue(req) ==
  CASE req.route = "post" -> PostContinue(req)
    [] req.route = "list" -> ListContinue(req)
    [] req.route = "get" -> GetContinue(req)
    [] req.route = "patch" -> PatchContinue(req)
    [] req.route = "delete" -> DeleteContinue(req)

\* The handler of slot r resumes after its await.
Respond(r) ==
  /\ reqs[r].pc = "resolved"
  /\ reqs' = [reqs EXCEPT ![r] = Continue(@)]
  /\ UNCHANGED <<store, jobs, created, gone>>

\* The request of slot r is over.
Release(r) ==
  /\ reqs[r].pc = "done"
  /\ reqs' = [reqs EXCEPT ![r] = IdleSlot]
  /\ UNCHANGED <<store, jobs, created, gone>>

(* --------------------------- specifications --------------------------- *)

SeededStore == [EmptyStore EXCEPT !["globex"] = SeedCompany]

SeededJobs == [EmptyJobs EXCEPT !["globex"] = SeedJobs]

ListStore ==
  [SeededStore EXCEPT !["acme"] =
     [handle |-> Str("acme"), name |-> Str("A"), description |-> Absent,
      numEmployees |-> Num(1), logoUrl |-> Str("u")]]

InitWith(stores) ==
  /\ store \in stores
  /\ jobs = IF Present(store["globex"]) THEN SeededJobs ELSE EmptyJobs
  /\ reqs = [r \in Slots |-> IdleSlot]
  /\ created = [h \in Handles |-> NoCompany]
  /\ gone = [h \in Handles |-> FALSE]

Init == InitWith({EmptyStore, SeededStore})

Next ==
  \E r \in SeqSlots :
    \/ Post(r, PostBodies)
    \/ List(r, SmallQueries)
    \/ GetOne(r, PathHandles)
    \/ Patch(r, PathHandles, PatchBodies)
    \/ Delete(r, PathHandles)
    \/ Persist(r)
    \/ Respond(r)
    \/ Release(r)

Spec == Init /\ [][Next]_vars

InitList == InitWith({EmptyStore, SeededStore, ListStore})

NextList ==
  \E r \in SeqSlots :
    \/ List(r, Queries)
    \/ Persist(r)
    \/ Respond(r)
    \/ Release(r)

SpecList == InitList /\ [][NextList]_vars

InitConc == InitWith({EmptyStore})

NextConc ==
  \E r \in Slots :
    \/ Post(r, ConcPostBodies)
    \/ List(r, ConcQueries)
    \/ GetOne(r, ConcHandles)
    \/ Patch(r, ConcHandles, ConcPatchBodies)
    \/ Delete(r, ConcHandles)
    \/ Persist(r)
    \/ Respond(r)
    \/ Release(r)

SpecConc == InitConc /\ [][NextConc]_vars

(* ------------------------------ claims -------------------------------- *)

Mutating == {"post", "patch", "delete"}

Unauthorized == ErrorResponse("Unauthorized", <<>>)

NotFound == ErrorResponse("NotFound", <<>>)

SchemaOf(route) == IF route = "post" THEN companyNewSchema ELSE companyUpdateSchema

BodyErrors(q) == Validate(q.body, BodyKeys, SchemaOf(q.route))

\* C1: a request to a mutating route (POST, PATCH, DELETE) that carries no valid
\* credentials ends, in the step it arrives in, with Unauthorized, having made no
\* call of the persistence layer and leaving the store and the jobs as they were.
C1_UnauthorizedNoSideEffect ==
  [][\A r \in Slots :
       (/\ reqs[r].pc = "idle"
        /\ reqs'[r].pc # "idle"
        /\ reqs'[r].route \in Mutating
        /\ ~reqs'[r].auth)
       => (/\ reqs'[r].pc = "done"
           /\ reqs'[r].resp = <<Unauthorized>>
           /\ reqs'[r].calls = <<>>
           /\ store' = store
           /\ jobs' = jobs)]_vars

\* C1 witness: an unauthenticated DELETE of a stored company has ended and the
\* company is still stored.
C1_Witness ==
  \E r \in Slots :
    /\ reqs[r].route = "delete" /\ ~reqs[r].auth /\ reqs[r].pc = "done"
    /\ Has(store, reqs[r].handle)

\* The decimal text of an integer: an optional minus sign, then digits only.
IsDecimalText(cs) ==
  LET ds == IF cs # <<>> /\ Head(cs) = "-" THEN Tail(cs) ELSE cs
  IN  ds # <<>> /\ \A n \in DOMAIN ds : IsDigit(ds[n])

NonNumeric(v) == v.t = "str" /\ ~IsDecimalText(v.s)

\* C2: a GET / whose minEmployees or maxEmployees is a string that is not the
\* decimal text of an integer (the empty string and "1a" included) ends with
\* BadRequest and Company.findAll is never called for it.
C2_NonNumericRejected ==
  \A r \in Slots :
    (/\ reqs[r].route = "list"
     /\ \/ NonNumeric(reqs[r].rawQuery.minEmployees)
        \/ NonNumeric(reqs[r].rawQuery.maxEmployees))
    => (/\ reqs[r].pc = "done"
        /\ reqs[r].resp[1].error = "BadRequest"
        /\ reqs[r].calls = <<>>)

\* C3: an authenticated POST of a valid payload whose handle the store does not
\* hold ends with 201 and the payload as the created record; and a GET of a handle
\* created by such a POST, no update or removal of it having run since, ends with
\* 200, the five fields of the payload and jobs the empty sequence.
C3_CreateThenGet ==
  \A r \in Slots :
    /\ (/\ reqs[r].route = "post" /\ reqs[r].pc = "done" /\ reqs[r].auth
         /\ BodyErrors(reqs[r]) = <<>>
         /\ ~reqs[r].snap.had)
        => reqs[r].resp =
             <<Json(201, "company", reqs[r].body, FALSE, <<>>, <<>>, "")>>
    /\ (/\ reqs[r].route = "get" /\ reqs[r].pc = "done"
         /\ Present(reqs[r].snap.created))
        => (/\ Len(reqs[r].resp) = 1
            /\ reqs[r].resp[1].status = 200
            /\ reqs[r].resp[1].kind = "company"
            /\ \A n \in DOMAIN BodyKeys :
                 reqs[r].resp[1].company[BodyKeys[n]]
                   = reqs[r].snap.created[BodyKeys[n]]
            /\ reqs[r].snap.created.handle = Str(reqs[r].handle)
            /\ reqs[r].resp[1].hasJobs
            /\ reqs[r].resp[1].jobs = <<>>)

\* C3 witness: a GET of a handle created by a POST whose payload carries all five
\* fields has ended.
C3_Witness ==
  \E r \in Slots :
    /\ reqs[r].route = "get" /\ reqs[r].pc = "done"
    /\ Present(reqs[r].snap.created)
    /\ \A n \in DOMAIN BodyKeys : reqs[r].snap.created[BodyKeys[n]].t # "absent"

\* C4: an authenticated DELETE of a handle that an earlier DELETE removed (no
\* create of it since), or of a handle the store does not hold, ends with NotFound
\* (404) and never with 200 and {deleted: handle}.
C4_SecondDeleteNotFound ==
  \A r \in Slots :
    (/\ reqs[r].route = "delete" /\ reqs[r].pc = "done" /\ reqs[r].auth
     /\ (reqs[r].snap.gone \/ ~reqs[r].snap.had))
    => (/\ reqs[r].resp = <<NotFound>>
        /\ reqs[r].resp[1].status = 404
        /\ reqs[r].resp[1].deleted # reqs[r].handle)

\* C4 witness: an authenticated DELETE of a handle removed before has ended.
C4_Witness ==
  \E r \in Slots :
    /\ reqs[r].route = "delete" /\ reqs[r].pc = "done" /\ reqs[r].auth
    /\ reqs[r].snap.gone

\* C5: a POST or PATCH that lacks valid credentials and whose body violates the
\* schema ends with Unauthorized, never with BadRequest, and with no validator
\* message in the response.
C5_AuthBeforeValidation ==
  \A r \in Slots :
    (/\ reqs[r].route \in {"post", "patch"} /\ ~reqs[r].auth
     /\ BodyErrors(reqs[r]) # <<>>)
    => (/\ reqs[r].pc = "done"
        /\ reqs[r].resp = <<Unauthorized>>
        /\ reqs[r].resp[1].error # "BadRequest"
        /\ reqs[r].resp[1].messages = <<>>)

\* C5 witness: an unauthenticated PATCH whose body holds the key handle has ended.
C5_Witness ==
  \E r \in Slots :
    /\ reqs[r].route = "patch" /\ ~reqs[r].auth /\ reqs[r].pc = "done"
    /\ reqs[r].body.handle.t # "absent"

\* A PATCH body that is a subset of {name, description, numEmployees, logoUrl}
\* with well-typed values.
WellTypedPatch(b) ==
  /\ b.handle.t = "absent"
  /\ b.name.t \in {"absent", "str"}
  /\ b.description.t \in {"absent", "str"}
  /\ b.numEmployees.t = "absent" \/ (b.numEmployees.t = "int" /\ b.numEmployees.i >= 0)
  /\ b.logoUrl.t \in {"absent", "str"}

Crossed(q) ==
  /\ q.route = "list"
  /\ q.rawQuery.minEmployees.t = "str" /\ q.rawQuery.maxEmployees.t = "str"
  /\ ParseInt(q.rawQuery.minEmployees.s).t = "int"
  /\ ParseInt(q.rawQuery.maxEmployees.s).t = "int"
  /\ ParseInt(q.rawQuery.minEmployees.s).i > ParseInt(q.rawQuery.maxEmployees.s).i

\* Rejected, or answered with a result.
OutcomeKind(response) == IF response.kind = "error" THEN "rejected" ELSE "result"

\* The response of GET /?minEmployees=1&maxEmployees=0 against the store st.
CrossedReference(st, jb) ==
  LET q == [EmptyQuery EXCEPT !.minEmployees = QStr(<<"1">>),
                              !.maxEmployees = QStr(<<"0">>)]
      a == ListRoute(Request("list", FALSE, "", EmptyBody, q))
      b == [a EXCEPT !.result = Execute(a.call, st, jb)]
  IN  ListContinue(b).resp[1]

C8_CoercedBeforeFindAll ==
  \A r \in Slots :
    reqs[r].route = "list"
    => /\ reqs[r].calls # <<>>
           => (/\ reqs[r].calls = <<"findAll">>
               /\ \A k \in {"minEmployees", "maxEmployees"} :
                    \/ reqs[r].call.filters[k].t = "absent"
                          /\ reqs[r].rawQuery[k].t = "absent"
                    \/ reqs[r].call.filters[k].t = "int"
                          /\ reqs[r].rawQuery[k].t = "str"
                          /\ reqs[r].call.filters[k] = ParseInt(reqs[r].rawQuery[k].s)
               /\ reqs[r].call.filters.nameLike = reqs[r].rawQuery.nameLike
               /\ reqs[r].rawQuery.location.t = "absent"
               /\ reqs[r].call.filters.location.t = "absent")
       /\ reqs[r].rawQuery.location.t # "absent"
           => (/\ reqs[r].pc = "done"
               /\ reqs[r].resp[1].error = "BadRequest"
               /\ reqs[r].calls = <<>>)
       /\ reqs[r].rawQuery = EmptyQuery
           => (/\ reqs[r].calls = <<"findAll">>
               /\ reqs[r].call.filters = EmptyQuery
               /\ reqs[r].pc = "done"
                   => (/\ Len(reqs[r].resp) = 1
                       /\ reqs[r].resp[1].status = 200
                       /\ reqs[r].resp[1].kind = "companies"))

\* C8 witness: a GET / without credentials whose minEmployees was query text has
\* ended with 200, Company.findAll having received the integer.
C8_Witness ==
  \E r \in Slots :
    /\ reqs[r].route = "list" /\ ~reqs[r].auth /\ reqs[r].pc = "done"
    /\ reqs[r].rawQuery.minEmployees.t = "str"
    /\ reqs[r].call.filters.minEmployees.t = "int"
    /\ reqs[r].resp[1].status = 200

\* C9: a GET, an authenticated valid PATCH or an authenticated DELETE of a handle
\* the store does not hold gets NotFound from the persistence layer, which leaves
\* the store as it was, and ends with that NotFound (404) as its only response.
C9_NotFoundPropagates ==
  \A r \in Slots :
    (/\ reqs[r].route \in {"get", "patch", "delete"}
     /\ reqs[r].pc \in {"resolved", "done"}
     /\ reqs[r].calls # <<>>
     /\ ~reqs[r].snap.had)
    => (/\ reqs[r].result.error = "NotFound"
        /\ reqs[r].result.store = reqs[r].snap.before
        /\ reqs[r].pc = "done"
            => (/\ reqs[r].resp = <<NotFound>>
                /\ reqs[r].resp[1].status = 404
                /\ reqs[r].resp[1].deleted # reqs[r].handle))

\* C9 witness: an authenticated PATCH of "ghost" with a valid body has ended
\* while the store holds another company.
C9_Witness ==
  \E r \in Slots :
    /\ reqs[r].route = "patch" /\ reqs[r].pc = "done" /\ reqs[r].handle = "ghost"
    /\ reqs[r].calls = <<"update">>
    /\ Present(store["globex"])

\* C10: with requests in flight together, no step of a GET / or a GET /:handle
\* changes the store or the jobs; a request of any route has made at most one
\* call of the persistence layer; and it has exactly one response once it has
\* ended and none before.
C10_ReadsAndSingleOutcome ==
  [][\A r \in Slots :
       /\ (reqs'[r] # reqs[r] /\ reqs'[r].route \in {"list", "get"})
           => (store' = store /\ jobs' = jobs)
       /\ Len(reqs'[r].calls) <= 1
       /\ reqs'[r].pc = "done" => Len(reqs'[r].resp) = 1
       /\ reqs'[r].pc # "done" => reqs'[r].resp = <<>>]_vars

\* C10 witness: a GET /:handle and a DELETE /:handle of the same handle were in
\* flight together and both ended with 200.
C10_Witness ==
  \E r1, r2 \in Slots :
    /\ r1 # r2
    /\ reqs[r1].route = "get" /\ reqs[r1].pc = "done"
    /\ reqs[r2].route = "delete" /\ reqs[r2].pc = "done"
    /\ reqs[r1].handle = reqs[r2].handle
    /\ reqs[r1].resp[1].status = 200 /\ reqs[r2].resp[1].status = 200

====
